---- MODULE Spec2Model ----
(***************************************************************************)
(* Model of the variable-length batching pipeline                          *)
(* (experiments/chordmixer/dataloader.py) and of the train / evaluate /    *)
(* test loop (experiments/trainers/chordmixer.py).                         *)
(*                                                                         *)
(* A data frame is a sequence of rows; a row is a record whose fields are  *)
(* the frame's columns.  The pandas index is not modelled: every frame the *)
(* code reads by position has had its index rebuilt (ignore_index=True,    *)
(* reset_index(drop=True)) or is read with iloc.                           *)
(* A Python str is the sequence of its character codes.  A tensor is a     *)
(* record [tensor |-> data].                                               *)
(***************************************************************************)
EXTENDS Integers, Sequences, FiniteSets, TLC

VARIABLES
    dataframe,   \* create_dataloader: the table read from the pickle file
    batch_size,  \* create_dataloader / DatasetCreator argument
    var_len,     \* DatasetCreator argument
    pc,          \* position in DatasetCreator.__init__: "new", "completed", "ready", "failed"
    df,          \* __init__'s local df (after complete_batch it carries batch_id)
    shuffled,    \* value returned by shuffle_batches(df)
    self_df,     \* DatasetCreator.df
    error,       \* exception that ended __init__ ("none" when there is none)
    pos,         \* DataLoader: number of records the sequential sampler has handed out
    batch,       \* DataLoader: the list last passed to collate_fn
    packed,      \* DataLoader: what collate_fn returned for it
    ret          \* the last call of __getitem__ / __len__ and what it returned

VARIABLES
    task,          \* Trainer.task
    training,      \* self.model.training, set by model.train() / model.eval()
    params,        \* self.model's parameters: the number of optimizer steps applied to them
    tpc,           \* "idle", "loop" (inside train / evaluate / test) or "error"
    phase,         \* the pass running or last run: "none", "train", "val", "test"
    epoch,         \* current_epoch_nr of that pass
    num_batches,   \* local: len() of the loader of the pass
    it,            \* batches the loop of the pass has taken from its loader
    running_loss,  \* local
    correct,       \* local
    total,         \* local
    preds,         \* local
    targets,       \* local
    calls,         \* calls the pass has made to model, criterion, loss and optimizer
    history,       \* what loader, model and criterion yielded in the pass, per batch
    log,           \* log_metrics calls of the pass
    terror         \* exception that ended the pass ("none" when there is none)

tvars == <<task, training, params, tpc, phase, epoch, num_batches,
           it, running_loss, correct, total, preds, targets, calls, history,
           log, terror>>

dvars == <<dataframe, batch_size, var_len, pc, df, shuffled, self_df, error,
           pos, batch, packed, ret>>

----------------------------------------------------------------------------
(* Bounds of the model.                                                    *)

MaxRows == 3

MaxBatchSize == 3

IndexSlack == 1

ExampleRows == 10

ExampleBatchSize == 4

MaxBatches == 2

MaxBatchLen == 2

MaxSteps == 2


----------------------------------------------------------------------------
(* Generic helpers.                                                        *)

Range(s) == {s[i] : i \in 1..Len(s)}

RECURSIVE Flatten(_)
Flatten(frames) ==
    IF frames = <<>> THEN <<>> ELSE Head(frames) \o Flatten(Tail(frames))

RECURSIVE SumSeq(_)
SumSeq(s) == IF s = <<>> THEN 0 ELSE Head(s) + SumSeq(Tail(s))

Repeat(s, k) == Flatten([i \in 1..k |-> s])

SetMin(S) == CHOOSE x \in S : \A y \in S : x <= y

\* Python's str comparison on character codes: lexicographic, a proper
\* prefix is smaller.
RECURSIVE LexLess(_, _)
LexLess(a, b) ==
    IF b = <<>> THEN FALSE
    ELSE IF a = <<>> THEN TRUE
    ELSE IF Head(a) # Head(b) THEN Head(a) < Head(b)
    ELSE LexLess(Tail(a), Tail(b))

StrMin(S) == CHOOSE x \in S : \A y \in S : x = y \/ LexLess(x, y)

\* str(n) for an int n >= 0: the codes of its decimal digits.
RECURSIVE Str(_)
Str(n) == IF n < 10 THEN <<48 + n>> ELSE Str(n \div 10) \o <<48 + (n % 10)>>

\* "_bin"
BinInfix == <<95, 98, 105, 110>>

----------------------------------------------------------------------------
(* pandas.                                                                 *)

ValueError == [status |-> "ValueError"]

Ok(frame) == [status |-> "ok", df |-> frame]

\* pd.concat(frames, ignore_index=True): the rows of the frames, in order;
\* an empty list of frames raises ValueError("No objects to concatenate").
PdConcat(frames) ==
    IF frames = <<>> THEN ValueError ELSE Ok(Flatten(frames))

RECURSIVE SortedBins(_)
SortedBins(S) ==
    IF S = {} THEN <<>>
    ELSE LET m == SetMin(S) IN <<m>> \o SortedBins(S \ {m})

\* [g for _, g in frame.groupby('bin')]: one frame per bin value, in
\* ascending order of the value, each keeping its rows in frame order.
\* (Every row of the tables considered here has a bin value; groupby would
\* drop rows without one.)
GroupByBin(frame) ==
    LET keys == SortedBins({r.bin : r \in Range(frame)})
    IN  [k \in 1..Len(keys) |-> SelectSeq(frame, LAMBDA r : r.bin = keys[k])]

RECURSIVE SortedStrs(_)
SortedStrs(S) ==
    IF S = {} THEN <<>>
    ELSE LET m == StrMin(S) IN <<m>> \o SortedStrs(S \ {m})

\* [g for _, g in frame.groupby('batch_id')]
GroupByBatchId(frame) ==
    LET keys == SortedStrs({r.batch_id : r \in Range(frame)})
    IN  [k \in 1..Len(keys) |-> SelectSeq(frame, LAMBDA r : r.batch_id = keys[k])]

\* frame['batch_id'] = ids: needs as many values as the frame has rows.
AssignBatchId(frame, ids) ==
    IF Len(ids) # Len(frame) THEN ValueError
    ELSE Ok([i \in 1..Len(frame) |->
               [sequence |-> frame[i].sequence, label |-> frame[i].label,
                len |-> frame[i].len, bin |-> frame[i].bin,
                batch_id |-> ids[i]]])

\* frame[['sequence', 'label', 'len', 'bin']]
FourColumns(frame) ==
    [i \in 1..Len(frame) |->
        [sequence |-> frame[i].sequence, label |-> frame[i].label,
         len |-> frame[i].len, bin |-> frame[i].bin]]

----------------------------------------------------------------------------
(* complete_batch.                                                         *)

\* Mutant: f'{i}_bin', the group number left out.
BatchIdNoGroup(i, gr_id) == Str(i) \o BinInfix

\* f'{i}_bin{gr_id}'
BatchId(i, gr_id) == Str(i) \o BinInfix \o Str(gr_id)

\* the batch_ids list built by the loop over range(integer)
BatchIds(integer, gr_id, n) ==
    Flatten([k \in 1..integer |-> Repeat(<<BatchId(k - 1, gr_id)>>, n)])

\* Mutant: the padding copies the bin's last record.
CompleteBinPadLast(bin, gr_id, n) ==
    LET l         == Len(bin)
        remainder == l % n
        integer   == l \div n
        padded    == IF remainder # 0
                     THEN bin \o Repeat(SubSeq(bin, l, l), n - remainder)
                     ELSE bin
        integer2  == IF remainder # 0 THEN integer + 1 ELSE integer
    IN  AssignBatchId(padded, BatchIds(integer2, gr_id, n))

\* Mutant: no padding; the last batch id of a bin is left short.
CompleteBinNoPad(bin, gr_id, n) ==
    LET l         == Len(bin)
        remainder == l % n
        integer   == l \div n
        integer2  == IF remainder # 0 THEN integer + 1 ELSE integer
    IN  AssignBatchId(bin, SubSeq(BatchIds(integer2, gr_id, n), 1, l))

\* One iteration of the loop over the bins: bin is the gr_id-th group
\* (gr_id counts from 0), n is batch_size.
CompleteBin(bin, gr_id, n) ==
    LET l         == Len(bin)
        remainder == l % n
        integer   == l \div n
        padded    == IF remainder # 0
                     THEN bin \o Repeat(SubSeq(bin, 1, 1), n - remainder)
                     ELSE bin
        integer2  == IF remainder # 0 THEN integer + 1 ELSE integer
    IN  AssignBatchId(padded, BatchIds(integer2, gr_id, n))

complete_batch(frame, n) ==
    LET bins == GroupByBin(frame)
        done == [g \in 1..Len(bins) |-> CompleteBin(bins[g], g - 1, n)]
    IN  IF \E g \in 1..Len(bins) : done[g].status # "ok" THEN ValueError
        ELSE PdConcat([g \in 1..Len(bins) |-> done[g].df])

----------------------------------------------------------------------------
(* shuffle_batches.                                                        *)

\* Mutant: x[i] = x[j]; x[j] = x[i] without a temporary.
SwapLossy(x, a, b) == [x EXCEPT ![a] = x[b]]

Swap(x, a, b) == [x EXCEPT ![a] = x[b], ![b] = x[a]]

\* random.shuffle(x): for i in reversed(range(1, len(x))): j = randbelow(i + 1);
\* x[i], x[j] = x[j], x[i].  js[i] is the j drawn at index i (0-based, as in
\* the code); the loop is unrolled from i downwards.
RECURSIVE ShuffleFrom(_, _, _)
ShuffleFrom(x, js, i) ==
    IF i < 1 THEN x
    ELSE ShuffleFrom(Swap(x, i + 1, js[i] + 1), js, i - 1)

RandomShuffle(x, js) == ShuffleFrom(x, js, Len(x) - 1)

\* The draws random.shuffle can make on a list of n items.
Draws(n) == {js \in [1..(n - 1) -> 0..(n - 1)] : \A i \in 1..(n - 1) : js[i] <= i}

shuffle_batches(frame, js) ==
    LET batch_bins == GroupByBatchId(frame)
    IN  PdConcat(RandomShuffle(batch_bins, js))

----------------------------------------------------------------------------
(* DatasetCreator, concater_collate, DataLoader.                           *)

Tensor(data) == [tensor |-> data]

DatasetLen(frame) == Len(frame)

\* Mutant: negative positions are rejected.
GetItemNoNegative(frame, index) ==
    LET n == Len(frame)
    IN  IF index >= n \/ index < 0 THEN [status |-> "IndexError"]
        ELSE LET row == frame[index + 1]
             IN  [status |-> "ok",
                  value  |-> <<Tensor(row.sequence), Tensor(row.label),
                               row.len, row.bin>>]

\* frame.iloc[index, :] followed by the conversions of __getitem__.  iloc
\* takes index in -len..len-1 (negative counts from the end) and raises
\* IndexError outside.
GetItem(frame, index) ==
    LET n == Len(frame)
    IN  IF index >= n \/ index < -n THEN [status |-> "IndexError"]
        ELSE LET row == frame[(IF index < 0 THEN index + n ELSE index) + 1]
             IN  [status |-> "ok",
                  value  |-> <<Tensor(row.sequence), Tensor(row.label),
                               row.len, row.bin>>]

\* torch.cat(xx, 0) over 1-d tensors
TorchCat(xx) == Tensor(Flatten([i \in 1..Len(xx) |-> xx[i].tensor]))

\* torch.tensor(yy) over a tuple of 0-d tensors
TorchStack(yy) == Tensor([i \in 1..Len(yy) |-> yy[i].tensor])

SeqMax(s) == CHOOSE m \in Range(s) : \A x \in Range(s) : x <= m

\* Mutant: every sequence is padded with 0 to the longest one of the batch.
concater_collate_padded(b) ==
    LET longest == SeqMax([i \in 1..Len(b) |-> Len(b[i][1].tensor)])
        pad(t)  == Tensor(t.tensor \o Repeat(<<0>>, longest - Len(t.tensor)))
    IN  [xx      |-> TorchCat([i \in 1..Len(b) |-> pad(b[i][1])]),
         yy      |-> TorchStack([i \in 1..Len(b) |-> b[i][2]]),
         lengths |-> [i \in 1..Len(b) |-> b[i][3]],
         bins    |-> [i \in 1..Len(b) |-> b[i][4]]]

concater_collate(b) ==
    [xx      |-> TorchCat([i \in 1..Len(b) |-> b[i][1]]),
     yy      |-> TorchStack([i \in 1..Len(b) |-> b[i][2]]),
     lengths |-> [i \in 1..Len(b) |-> b[i][3]],
     bins    |-> [i \in 1..Len(b) |-> b[i][4]]]

\* DataLoader(shuffle=False, drop_last=False): the next batch is the next
\* n indices of range(len(dataset)), fewer when fewer are left.
NextIndices(p, count, n) ==
    [k \in 1..(IF count - p < n THEN count - p ELSE n) |-> p + k - 1]

FetchBatch(frame, p, n) ==
    LET idx == NextIndices(p, Len(frame), n)
    IN  [k \in 1..Len(idx) |-> GetItem(frame, idx[k]).value]

----------------------------------------------------------------------------
(* Inputs.                                                                 *)

Bins == {3, 7}

\* (sequence, label) payloads; len is the sequence's length.
Payloads == {<< <<1>>, 0 >>, << <<2, 3>>, 1 >>}

Row(p, b) == [sequence |-> p[1], label |-> p[2], len |-> Len(p[1]), bin |-> b]

Rows == {Row(p, b) : p \in Payloads, b \in Bins}

Tables == UNION {[1..n -> Rows] : n \in 0..MaxRows}

\* One bin of ExampleRows pairwise different records.
ExampleTable ==
    [i \in 1..ExampleRows |->
        [sequence |-> <<i>>, label |-> i % 2, len |-> 1, bin |-> 7]]

NoBatch == <<>>

NoRet == [op |-> "none"]

\* The pipeline before create_dataloader is called on any table.
DataIdle ==
    /\ dataframe = <<>>
    /\ batch_size = 1
    /\ var_len = TRUE
    /\ pc = "new"
    /\ df = <<>>
    /\ shuffled = <<>>
    /\ self_df = <<>>
    /\ error = "none"
    /\ pos = 0
    /\ batch = NoBatch
    /\ packed = NoBatch
    /\ ret = NoRet

DataInit ==
    /\ \/ /\ dataframe \in Tables
          /\ batch_size \in 1..MaxBatchSize
          /\ var_len \in BOOLEAN
       \/ /\ dataframe = ExampleTable
          /\ batch_size = ExampleBatchSize
          /\ var_len = TRUE
    /\ pc = "new"
    /\ df = dataframe
    /\ shuffled = <<>>
    /\ self_df = <<>>
    /\ error = "none"
    /\ pos = 0
    /\ batch = NoBatch
    /\ packed = NoBatch
    /\ ret = NoRet

----------------------------------------------------------------------------
(* Actions of the data pipeline.                                           *)

\* DatasetCreator.__init__, var_len: df = complete_batch(df, batch_size)
CompleteBatch ==
    /\ pc = "new" /\ var_len
    /\ LET r == complete_batch(df, batch_size)
       IN  IF r.status = "ok"
           THEN /\ df' = r.df
                /\ pc' = "completed"
                /\ error' = error
           ELSE /\ df' = df
                /\ pc' = "failed"
                /\ error' = r.status
    /\ UNCHANGED <<dataframe, batch_size, var_len, shuffled, self_df, pos,
                   batch, packed, ret>>
    /\ UNCHANGED tvars

\* DatasetCreator.__init__, var_len: self.df = shuffle_batches(df)[[...]]
ShuffleBatches ==
    /\ pc = "completed"
    /\ \E js \in Draws(Len(GroupByBatchId(df))) :
          LET r == shuffle_batches(df, js)
          IN  IF r.status = "ok"
              THEN /\ shuffled' = r.df
                   /\ self_df' = FourColumns(r.df)
                   /\ pc' = "ready"
                   /\ error' = error
              ELSE /\ UNCHANGED <<shuffled, self_df>>
                   /\ pc' = "failed"
                   /\ error' = r.status
    /\ UNCHANGED <<dataframe, batch_size, var_len, df, pos, batch, packed, ret>>
    /\ UNCHANGED tvars

\* DatasetCreator.__init__, not var_len: self.df = df
PassThrough ==
    /\ pc = "new" /\ ~var_len
    /\ self_df' = df
    /\ pc' = "ready"
    /\ UNCHANGED <<dataframe, batch_size, var_len, df, shuffled, error, pos,
                   batch, packed, ret>>
    /\ UNCHANGED tvars

\* dataset[index], called directly
GetItemCall ==
    /\ pc = "ready" /\ pos = 0
    /\ \E index \in -(Len(self_df) + IndexSlack)..(Len(self_df) + IndexSlack) :
          ret' = [op |-> "getitem", index |-> index, out |-> GetItem(self_df, index)]
    /\ UNCHANGED <<dataframe, batch_size, var_len, pc, df, shuffled, self_df,
                   error, pos, batch, packed>>
    /\ UNCHANGED tvars

\* len(dataset)
LenCall ==
    /\ pc = "ready" /\ pos = 0
    /\ ret' = [op |-> "len", out |-> DatasetLen(self_df)]
    /\ UNCHANGED <<dataframe, batch_size, var_len, pc, df, shuffled, self_df,
                   error, pos, batch, packed>>
    /\ UNCHANGED tvars

\* One step of iterating the DataLoader create_dataloader returns: fetch the
\* next batch_size records with __getitem__ and collate them.
LoadBatch ==
    /\ pc = "ready" /\ var_len
    /\ pos < Len(self_df)
    /\ LET b    == FetchBatch(self_df, pos, batch_size)
           last == pos + Len(b) - 1
       IN  /\ batch' = b
           /\ packed' = concater_collate(b)
           /\ pos' = pos + Len(b)
           /\ ret' = [op |-> "getitem", index |-> last, out |-> GetItem(self_df, last)]
    /\ UNCHANGED <<dataframe, batch_size, var_len, pc, df, shuffled, self_df,
                   error>>
    /\ UNCHANGED tvars

\* The iterator is exhausted; the next epoch starts a new one.
RestartLoader ==
    /\ pc = "ready" /\ var_len
    /\ pos > 0 /\ pos >= Len(self_df)
    /\ pos' = 0
    /\ batch' = NoBatch
    /\ packed' = NoBatch
    /\ UNCHANGED <<dataframe, batch_size, var_len, pc, df, shuffled, self_df,
                   error, ret>>
    /\ UNCHANGED tvars

DataNext ==
    \/ CompleteBatch
    \/ ShuffleBatches
    \/ PassThrough
    \/ GetItemCall
    \/ LenCall
    \/ LoadBatch
    \/ RestartLoader


----------------------------------------------------------------------------
(* Numbers of the trainer.  A Python or tensor float is a fraction <<n, d>> *)
(* in lowest terms with d > 0; model outputs are given in tenths.           *)

Abs(n) == IF n < 0 THEN -n ELSE n

RECURSIVE GCD(_, _)
GCD(a, b) == IF b = 0 THEN a ELSE GCD(b, a % b)

Rat(n, d) == LET g == GCD(Abs(n), d) IN <<n \div g, d \div g>>

RatAdd(a, b) == Rat(a[1] * b[2] + b[1] * a[2], a[2] * b[2])

\* a / k for an int k > 0
RatDivInt(a, k) == Rat(a[1], a[2] * k)

RECURSIVE RatSum(_)
RatSum(s) == IF s = <<>> THEN Rat(0, 1) ELSE RatAdd(Head(s), RatSum(Tail(s)))

\* tenths in one unit of a model output
Tenths == 10

\* torch.round on a value in tenths: to the nearest integer, halves to even
TorchRound(v) ==
    LET q == v \div Tenths
        r == v % Tenths
    IN  IF 2 * r < Tenths THEN q * Tenths
        ELSE IF 2 * r > Tenths THEN (q + 1) * Tenths
        ELSE IF q % 2 = 0 THEN q * Tenths ELSE (q + 1) * Tenths

\* y.float(): an int label as a value in tenths
ToFloat(y) == y * Tenths

\* y_hat.max(1)[1] for one row: the index (from 0) of the first largest logit
ArgMax(row) ==
    (CHOOSE i \in 1..Len(row) :
        /\ \A j \in 1..Len(row) : row[j] <= row[i]
        /\ \A j \in 1..(i - 1) : row[j] < row[i]) - 1

CountTrue(s) == Cardinality({i \in 1..Len(s) : s[i]})

----------------------------------------------------------------------------
(* calculate_y_hat and calculate_predictions.                              *)

KnownTasks == {"TaxonomyClassification", "VariantEffectPrediction", "PlantDeepSEA"}

TaskError == "ValueError: Task not found"

\* Mutant: an unknown task falls through to the last known branch.
calculate_y_hat_fallback(t, data, model_out) ==
    IF t = "TaxonomyClassification"
    THEN [status |-> "ok", input |-> "taxonomy_classification",
          y |-> data.y, y_hat |-> model_out]
    ELSE IF t = "VariantEffectPrediction"
    THEN [status |-> "ok", input |-> "variant_effect_prediction",
          y |-> [i \in 1..Len(data.y) |-> ToFloat(data.y[i])], y_hat |-> model_out]
    ELSE [status |-> "ok", input |-> "plantdeepsea",
          y |-> data.y, y_hat |-> model_out]

\* data is the batch (only its y is read here; the other fields go to the
\* model), model_out is what self.model returns for the batch.  The model
\* is called only in the three known branches.
calculate_y_hat(t, data, model_out) ==
    IF t = "TaxonomyClassification"
    THEN [status |-> "ok", input |-> "taxonomy_classification",
          y |-> data.y, y_hat |-> model_out]
    ELSE IF t = "VariantEffectPrediction"
    THEN [status |-> "ok", input |-> "variant_effect_prediction",
          y |-> [i \in 1..Len(data.y) |-> ToFloat(data.y[i])], y_hat |-> model_out]
    ELSE IF t = "PlantDeepSEA"
    THEN [status |-> "ok", input |-> "plantdeepsea",
          y |-> data.y, y_hat |-> model_out]
    ELSE [status |-> TaskError]

calculate_predictions(t, y, y_hat) ==
    IF t = "TaxonomyClassification"
    THEN LET predicted == [i \in 1..Len(y_hat) |-> ArgMax(y_hat[i])]
         IN  [status |-> "ok", predicted |-> predicted,
              correct_predictions |->
                  Rat(CountTrue([i \in 1..Len(y) |-> predicted[i] = y[i]]), 1)]
    ELSE IF t = "VariantEffectPrediction"
    THEN [status |-> "ok", predicted |-> y_hat,
          correct_predictions |->
              Rat(CountTrue([i \in 1..Len(y) |-> TorchRound(y_hat[i]) = y[i]]), 1)]
    ELSE IF t = "PlantDeepSEA"
    THEN [status |-> "ok", predicted |-> y_hat,
          correct_predictions |->
              Rat(SumSeq([i \in 1..Len(y) |->
                     CountTrue([k \in 1..Len(y[i]) |->
                         TorchRound(y_hat[i][k]) = ToFloat(y[i][k])])]),
                  Len(y[1]))]
    ELSE [status |-> TaskError]

----------------------------------------------------------------------------
(* sklearn.metrics.roc_auc_score.                                          *)

\* Area under the ROC curve of scores p for two-class labels t: the share
\* of (positive, negative) pairs ranked right, ties counting half.
AucColumn(t, p) ==
    LET hi  == CHOOSE c \in Range(t) : \A x \in Range(t) : x <= c
        P   == {i \in 1..Len(t) : t[i] = hi}
        N   == {i \in 1..Len(t) : t[i] # hi}
        won == Cardinality({<<i, j>> \in P \X N : p[i] > p[j]})
        tie == Cardinality({<<i, j>> \in P \X N : p[i] = p[j]})
    IN  Rat(2 * won + tie, 2 * Cardinality(P) * Cardinality(N))

\* The label columns roc_auc_score scores: one for a vector of labels, one
\* per label for a matrix (average='macro').
Columns(t, rows) ==
    IF t = "PlantDeepSEA"
    THEN [k \in 1..Len(rows[1]) |-> [i \in 1..Len(rows) |-> rows[i][k]]]
    ELSE <<rows>>

\* What roc_auc_score(targets, preds) can do.  With a column holding a
\* single class the score is undefined: the call raises ValueError or,
\* from scikit-learn 1.6 on, warns and returns nan.
RocAucOutcomes(t, tg, pr) ==
    LET tc == Columns(t, tg)
        pc2 == Columns(t, pr)
    IN  IF \E k \in 1..Len(tc) : Cardinality(Range(tc[k])) < 2
        THEN {[status |-> "ValueError: one class"], [status |-> "ok", value |-> "nan"]}
        ELSE {[status |-> "ok",
               value  |-> RatDivInt(RatSum([k \in 1..Len(tc) |-> AucColumn(tc[k], pc2[k])]),
                                    Len(tc))]}

----------------------------------------------------------------------------
(* train / evaluate / test.                                                *)

Phases == {"train", "val", "test"}

NoCalls == [forward |-> 0, criterion |-> 0, backward |-> 0, step |-> 0, zero_grad |-> 0]

\* Mutant: the loss is averaged over the examples.
EpochMetricsPerExample(auc, c, tot, rl, nb, e, metric_type) ==
    [auc |-> auc, accuracy |-> RatDivInt(c, tot), loss |-> RatDivInt(rl, tot),
     current_epoch_nr |-> e, metric_type |-> metric_type]

\* The arguments of log_metrics at the end of a pass.
EpochMetrics(auc, c, tot, rl, nb, e, metric_type) ==
    [auc |-> auc, accuracy |-> RatDivInt(c, tot), loss |-> RatDivInt(rl, nb),
     current_epoch_nr |-> e, metric_type |-> metric_type]

\* Mutant: the evaluation loop keeps the optimizer lines of the training loop.
EvalStepOptimizing(c, p) ==
    [calls  |-> [c EXCEPT !.forward = @ + 1, !.criterion = @ + 1,
                          !.backward = @ + 1, !.step = @ + 1, !.zero_grad = @ + 1],
     params |-> p + 1]

\* Body of the loop of evaluate / test up to the loss: forward pass and
\* criterion under torch.no_grad().
EvalStep(c, p) ==
    [calls  |-> [c EXCEPT !.forward = @ + 1, !.criterion = @ + 1],
     params |-> p]

\* Body of the loop of train up to zero_grad: forward pass, criterion,
\* loss.backward(), optimizer.step(), optimizer.zero_grad().
TrainStep(c, p) ==
    [calls  |-> [c EXCEPT !.forward = @ + 1, !.criterion = @ + 1,
                          !.backward = @ + 1, !.step = @ + 1, !.zero_grad = @ + 1],
     params |-> p + 1]

\* (y, model output) of one example, per task.
Examples(t) ==
    IF t = "VariantEffectPrediction"
    THEN {<<0, 5>>, <<1, 5>>}
    ELSE IF t = "PlantDeepSEA"
    THEN {<< <<0, 1>>, <<2, 8>> >>, << <<1, 0>>, <<8, 8>> >>}
    ELSE {<<0, <<2, 1>> >>, <<1, <<2, 1>> >>}

\* The batches a loader can yield, each with the model's output for it.
ExampleBatches(t) == UNION {[1..n -> Examples(t)] : n \in 1..MaxBatchLen}

\* A DataLoader yields batches of one size, except that the last one may be
\* smaller: seen are the batches already yielded, n is len(loader), size is
\* the size of the next batch.
LoaderYields(seen, n, size) ==
    /\ \A k \in 1..Len(seen) : seen[k].size = seen[1].size
    /\ Len(seen) >= 1 => size <= seen[1].size
    /\ (Len(seen) >= 1 /\ Len(seen) + 1 < n) => size = seen[1].size

\* Values of current_epoch_nr.
Epochs == {1}

\* Values the criterion can return.
Losses == {Rat(1, 1), Rat(1, 2)}

Tasks == KnownTasks \cup {"Unknown"}

\* The state of a trainer after construction, before any pass.
Constructed ==
    /\ training = TRUE
    /\ params = 0
    /\ tpc = "idle"
    /\ phase = "none"
    /\ epoch = 0
    /\ num_batches = 0
    /\ it = 0
    /\ running_loss = Rat(0, 1)
    /\ correct = Rat(0, 1)
    /\ total = 0
    /\ preds = <<>>
    /\ targets = <<>>
    /\ calls = NoCalls
    /\ history = <<>>
    /\ log = <<>>
    /\ terror = "none"

TrainerIdle ==
    /\ task = "TaxonomyClassification"
    /\ Constructed

TrainerInit ==
    /\ task \in Tasks
    /\ Constructed

\* The statements of train / evaluate / test before the loop.  n is the
\* len() of the loader of the pass; loaders with at least one batch are
\* considered, as create_dataloader cannot build an empty one.  The tqdm
\* progress display (set_description, set_postfix) is not modelled.
StartPass(ph, mode, e, n) ==
    /\ tpc = "idle"
    /\ training' = mode
    /\ num_batches' = n
    /\ running_loss' = Rat(0, 1)
    /\ correct' = Rat(0, 1)
    /\ total' = 0
    /\ preds' = <<>>
    /\ targets' = <<>>
    /\ phase' = ph
    /\ epoch' = e
    /\ it' = 0
    /\ calls' = NoCalls
    /\ history' = <<>>
    /\ log' = <<>>
    /\ tpc' = "loop"
    /\ UNCHANGED <<task, params, terror>>
    /\ UNCHANGED dvars

\* One iteration of the loop of a pass; the loop of train differs from the
\* loop of evaluate / test in the step it takes after the forward pass.
LoopBody(ph) ==
    /\ tpc = "loop" /\ phase = ph
    /\ it < num_batches
    /\ \E ex \in ExampleBatches(task) : \E loss \in Losses :
          /\ LoaderYields(history, num_batches, Len(ex))
          /\ LET data == [y |-> [i \in 1..Len(ex) |-> ex[i][1]]]
                 out  == [i \in 1..Len(ex) |-> ex[i][2]]
                 r    == calculate_y_hat(task, data, out)
             IN  IF r.status # "ok"
                 THEN /\ tpc' = "error"
                      /\ terror' = r.status
                      /\ UNCHANGED <<params, it, running_loss, correct, total,
                                     preds, targets, calls, history>>
                 ELSE LET s  == IF ph = "train" THEN TrainStep(calls, params)
                                ELSE EvalStep(calls, params)
                          cp == calculate_predictions(task, r.y, r.y_hat)
                      IN  IF cp.status # "ok"
                          THEN /\ calls' = s.calls
                               /\ params' = s.params
                               /\ running_loss' = RatAdd(running_loss, loss)
                               /\ tpc' = "error"
                               /\ terror' = cp.status
                               /\ UNCHANGED <<it, correct, total, preds,
                                              targets, history>>
                          ELSE
                          /\ calls' = s.calls
                          /\ params' = s.params
                          /\ running_loss' = RatAdd(running_loss, loss)
                          /\ correct' = RatAdd(correct, cp.correct_predictions)
                          /\ total' = total + Len(r.y)
                          /\ targets' = targets \o r.y
                          /\ preds' = preds \o cp.predicted
                          /\ it' = it + 1
                          /\ history' = Append(history,
                                 [size |-> Len(r.y), loss |-> loss,
                                  correct |-> cp.correct_predictions])
                          /\ UNCHANGED <<tpc, terror>>
    /\ UNCHANGED <<task, training, phase, epoch, num_batches, log>>
    /\ UNCHANGED dvars

\* The statements of train / evaluate / test after the loop.
EndPass(ph, e) ==
    /\ tpc = "loop" /\ phase = ph
    /\ it = num_batches
    /\ \E auc \in RocAucOutcomes(task, targets, preds) :
          IF auc.status # "ok"
          THEN /\ tpc' = "error"
               /\ terror' = auc.status
               /\ log' = log
          ELSE /\ tpc' = "idle"
               /\ terror' = terror
               /\ log' = Append(log, EpochMetrics(auc.value, correct, total,
                                                  running_loss, num_batches, e, ph))
    /\ UNCHANGED <<task, training, params, phase, epoch,
                   num_batches, it, running_loss, correct, total, preds,
                   targets, calls, history>>
    /\ UNCHANGED dvars

StartTrain ==
    \E e \in Epochs : \E n \in 1..MaxBatches :
        /\ params + n <= MaxSteps
        /\ StartPass("train", TRUE, e, n)

TrainBatch == LoopBody("train")

EndTrain == EndPass("train", epoch)

StartEvaluate ==
    \E e \in Epochs : \E n \in 1..MaxBatches : StartPass("val", FALSE, e, n)

EvaluateBatch == LoopBody("val")

EndEvaluate == EndPass("val", epoch)

\* test takes no epoch number; the model keeps the -1 it logs.
StartTest == \E n \in 1..MaxBatches : StartPass("test", FALSE, -1, n)

TestBatch == LoopBody("test")

EndTest == EndPass("test", -1)

TrainerNext ==
    \/ StartTrain
    \/ TrainBatch
    \/ EndTrain
    \/ StartEvaluate
    \/ EvaluateBatch
    \/ EndEvaluate
    \/ StartTest
    \/ TestBatch
    \/ EndTest

vars == <<dvars, tvars>>

Init == DataInit /\ TrainerIdle

InitTrainer == TrainerInit /\ DataIdle

\* The data pipeline, with a trainer that runs no pass.
Spec == Init /\ [][DataNext]_vars

\* The trainer, with the data pipeline left unbuilt.
SpecTrainer == InitTrainer /\ [][TrainerNext]_vars

----------------------------------------------------------------------------
(* Properties of the data pipeline.                                        *)

OfBin(frame, b) == SelectSeq(frame, LAMBDA r : r.bin = b)

OfBatch(frame, id) == SelectSeq(frame, LAMBDA r : r.batch_id = id)

BinValues(frame) == {r.bin : r \in Range(frame)}

BatchIdsOf(frame) == {r.batch_id : r \in Range(frame)}

Positions(frame, id) == {i \in 1..Len(frame) : frame[i].batch_id = id}

Contiguous(P) == \A i \in P : \A j \in P : \A k \in i..j : k \in P

Count(frame, r) == Cardinality({i \in 1..Len(frame) : frame[i] = r})

TupleOf(row) == <<Tensor(row.sequence), Tensor(row.label), row.len, row.bin>>

Completed == var_len /\ pc \in {"completed", "ready"}

\* B2 is B completed for batch size n.
BinCompleted(B, B2, n) ==
    /\ Len(B2) % n = 0
    /\ Len(B2) >= Len(B)
    /\ SubSeq(B2, 1, Len(B)) = B
    /\ \A i \in (Len(B) + 1)..Len(B2) : B2[i] = B[1]
    /\ (Len(B) < n => Len(B2) = n)

\* C1: after complete_batch every bin's size is a multiple of batch_size and
\* not smaller than before, the bin's original records come first in their
\* original order, every record after them equals the bin's first original
\* record, and a bin smaller than batch_size ends with exactly batch_size
\* records; no bin appears or disappears.
C1_BinCompletion ==
    Completed =>
        /\ BinValues(df) = BinValues(dataframe)
        /\ \A b \in BinValues(dataframe) :
              BinCompleted(OfBin(dataframe, b), FourColumns(OfBin(df, b)), batch_size)

C1_Witness ==
    /\ Completed
    /\ \E b \in BinValues(dataframe) :
          LET B == OfBin(dataframe, b)
          IN  /\ Len(B) > batch_size
              /\ Len(B) % batch_size # 0
              /\ B[1] # B[Len(B)]
              /\ Len(OfBin(df, b)) > Len(B)

\* C2: in the output of complete_batch every batch identifier is held by
\* exactly batch_size records, at contiguous positions and of one bin, and
\* records of different bins never share a batch identifier; a single bin of
\* 10 records with batch_size 4 gives 12 records, the last 2 equal to the
\* first record, under exactly 3 batch identifiers.
C2_BatchIdentifiers ==
    Completed =>
        /\ \A id \in BatchIdsOf(df) :
              /\ Cardinality(Positions(df, id)) = batch_size
              /\ Contiguous(Positions(df, id))
              /\ \A i \in Positions(df, id) : \A j \in Positions(df, id) :
                    df[i].bin = df[j].bin
        /\ \A i \in 1..Len(df) : \A j \in 1..Len(df) :
              df[i].bin # df[j].bin => df[i].batch_id # df[j].batch_id
        /\ (Len(dataframe) = 10 /\ Cardinality(BinValues(dataframe)) = 1
               /\ batch_size = 4) =>
              /\ Len(df) = 12
              /\ FourColumns(df)[11] = dataframe[1]
              /\ FourColumns(df)[12] = dataframe[1]
              /\ SubSeq(FourColumns(df), 1, 10) = dataframe
              /\ Cardinality(BatchIdsOf(df)) = 3

C2_Witness ==
    /\ Completed
    /\ Len(dataframe) = 10 /\ batch_size = 4
    /\ Cardinality(BinValues(dataframe)) = 1
    /\ Len(df) = 12
    /\ dataframe[1] # dataframe[2]

\* C3: shuffle_batches returns the records it was given, each as many times
\* as it was given (so the totals agree), with the records of every batch
\* identifier at contiguous positions and in the order they had in the input.
C3_ShuffleBijection ==
    (var_len /\ pc = "ready") =>
        /\ Len(shuffled) = Len(df)
        /\ \A r \in Range(df) \cup Range(shuffled) :
              Count(shuffled, r) = Count(df, r)
        /\ \A id \in BatchIdsOf(df) :
              /\ Contiguous(Positions(shuffled, id))
              /\ OfBatch(shuffled, id) = OfBatch(df, id)

C3_Witness ==
    /\ var_len /\ pc = "ready"
    /\ shuffled # df
    /\ Cardinality(BatchIdsOf(df)) >= 3
    /\ \E id \in BatchIdsOf(df) :
          LET g == OfBatch(shuffled, id) IN Len(g) >= 2 /\ g[1] # g[2]

\* C4: every batch the loader of create_dataloader passes to the collator is
\* the records of one batch identifier, in order: batch_size records of one
\* bin, never fewer.
C4_LoaderBatches ==
    (var_len /\ batch # NoBatch) =>
        /\ Len(batch) = batch_size
        /\ \A i \in 1..Len(batch) : batch[i][4] = batch[1][4]
        /\ \E id \in BatchIdsOf(shuffled) :
              LET g == OfBatch(shuffled, id)
              IN  batch = [k \in 1..Len(g) |-> TupleOf(g[k])]

C4_Witness ==
    /\ var_len /\ batch # NoBatch
    /\ pos = Len(self_df)
    /\ Len(dataframe) % batch_size # 0
    /\ Cardinality(BinValues(dataframe)) = 2
    /\ batch_size >= 2

\* C5: the collator's output for the batch of records self_df[pos-n+1..pos]
\* has their sequences concatenated in that order and nothing else, so its
\* length is the sum of length_list; length_list and bin_list hold the
\* records' len and bin in that order and have batch_size entries.
C5_Collate ==
    (var_len /\ packed # NoBatch) =>
        LET n     == Len(batch)
            chunk == SubSeq(self_df, pos - n + 1, pos)
        IN  /\ Len(packed.xx.tensor) = SumSeq(packed.lengths)
            /\ Len(packed.lengths) = batch_size
            /\ Len(packed.bins) = batch_size
            /\ packed.xx.tensor = Flatten([i \in 1..n |-> chunk[i].sequence])
            /\ packed.lengths = [i \in 1..n |-> chunk[i].len]
            /\ packed.bins = [i \in 1..n |-> chunk[i].bin]
            /\ packed.yy.tensor = [i \in 1..n |-> chunk[i].label]

C5_Witness ==
    /\ var_len /\ packed # NoBatch
    /\ Len(packed.lengths) >= 2
    /\ packed.lengths[1] # packed.lengths[2]
    /\ Len(packed.xx.tensor) = 3

\* C7 (as claimed): complete_batch returns a result for every table, an
\* empty one for a table without records.
C7_CompleteBatchNeverFails ==
    (var_len /\ pc # "new") =>
        /\ pc # "failed"
        /\ error = "none"
        /\ (dataframe = <<>> => df = <<>>)

\* C8 (as claimed): len() is the record count after completion and
\* shuffling, get(index) is the record at index for 0 <= index < len(), and
\* every other index, negative ones included, fails with IndexError.
C8_IndexOutOfRangeFails ==
    /\ ret.op = "len" => ret.out = Len(self_df)
    /\ ret.op = "getitem" =>
          LET n == Len(self_df)
          IN  IF 0 <= ret.index /\ ret.index < n
              THEN ret.out = [status |-> "ok", value |-> TupleOf(self_df[ret.index + 1])]
              ELSE ret.out.status = "IndexError"

\* C8 (amended): len() is the record count after completion and shuffling,
\* get(index) is the record at index for 0 <= index < len() and the record
\* at len() + index for -len() <= index < 0, and it fails with IndexError
\* for index >= len() and for index < -len().
C8_IndexLookup ==
    /\ ret.op = "len" =>
          /\ ret.out = Len(self_df)
          /\ var_len => ret.out = Len(shuffled) /\ ret.out = Len(df)
    /\ ret.op = "getitem" =>
          LET n == Len(self_df)
          IN  IF 0 <= ret.index /\ ret.index < n
              THEN ret.out = [status |-> "ok", value |-> TupleOf(self_df[ret.index + 1])]
              ELSE IF -n <= ret.index /\ ret.index < 0
              THEN ret.out = [status |-> "ok", value |-> TupleOf(self_df[n + ret.index + 1])]
              ELSE ret.out.status = "IndexError"

C8_Witness ==
    /\ ret.op = "getitem"
    /\ ret.index = -1
    /\ Len(self_df) >= 2
    /\ ret.out.status = "ok"
    /\ ret.out.value = TupleOf(self_df[Len(self_df)])
    /\ ret.out.value # TupleOf(self_df[1])

----------------------------------------------------------------------------
(* Properties of the trainer.                                              *)

Sizes(h) == [k \in 1..Len(h) |-> h[k].size]

BatchLosses(h) == [k \in 1..Len(h) |-> h[k].loss]

BatchCorrect(h) == [k \in 1..Len(h) |-> h[k].correct]

\* C6: with a task tag outside the three known ones no pass makes a forward
\* pass, a loss computation, a gradient or optimizer call or a metrics
\* emission, no batch is accumulated, and the first step of the loop of any
\* pass ends the pass with the task ValueError.
C6_UnknownTaskRaises ==
    /\ [](task \notin KnownTasks =>
            /\ calls = NoCalls
            /\ params = 0
            /\ log = <<>>
            /\ it = 0 /\ total = 0 /\ history = <<>>
            /\ (tpc = "error" => terror = TaskError))
    /\ [][(task \notin KnownTasks /\ tpc = "loop")
             => (tpc' = "error" /\ terror' = TaskError)]_vars

C6_Witness ==
    /\ task \notin KnownTasks
    /\ phase = "val"
    /\ tpc = "error"
    /\ terror = TaskError
    /\ num_batches = 2

\* C9: a pass starts its loop with all accumulators at zero, whatever an
\* earlier pass left; while it runs they are the sums over the batches it
\* has taken; it emits at most once, after its last batch, with accuracy =
\* (sum of the batches' correct counts) / (sum of the batch sizes) and loss
\* = (sum of the batch losses) / (number of batches), under its own phase
\* tag and epoch number, which is -1 for the test pass.
C9_EpochMetrics ==
    /\ (tpc = "loop" /\ it = 0) =>
          /\ running_loss = Rat(0, 1) /\ correct = Rat(0, 1) /\ total = 0
          /\ preds = <<>> /\ targets = <<>>
    /\ phase # "none" =>
          /\ Len(history) = it
          /\ running_loss = RatSum(BatchLosses(history))
          /\ correct = RatSum(BatchCorrect(history))
          /\ total = SumSeq(Sizes(history))
          /\ Len(targets) = total /\ Len(preds) = total
    /\ log # <<>> =>
          /\ Len(log) = 1
          /\ tpc = "idle"
          /\ Len(history) = num_batches
          /\ log[1].accuracy =
                RatDivInt(RatSum(BatchCorrect(history)), SumSeq(Sizes(history)))
          /\ log[1].loss = RatDivInt(RatSum(BatchLosses(history)), Len(history))
          /\ log[1].metric_type = phase
          /\ log[1].current_epoch_nr = (IF phase = "test" THEN -1 ELSE epoch)

C9_Witness ==
    /\ log # <<>>
    /\ phase = "test"
    /\ log[1].current_epoch_nr = -1
    /\ params > 0
    /\ Len(history) = 2
    /\ total = 3
    /\ history[1].loss # history[2].loss
    /\ log[1].loss = Rat(3, 4)
    /\ log[1].accuracy = Rat(2, 3)

\* C10 (as claimed): a step of an Evaluate or Test pass leaves the model
\* (mode and parameters) as it found it and makes no backward, optimizer
\* step or zero_grad call; the parameters change only in a Train pass.
C10_OnlyTrainMutates ==
    [][/\ phase' \in {"val", "test"} =>
            /\ UNCHANGED <<training, params>>
            /\ calls'.backward = 0 /\ calls'.step = 0 /\ calls'.zero_grad = 0
       /\ params' # params => phase' = "train"]_vars

\* C10 (amended): a step of an Evaluate or Test pass leaves the parameters
\* as it found them, makes no backward, optimizer step or zero_grad call
\* and leaves the model in evaluation mode; the parameters change only in
\* a Train pass, in training mode; the mode changes only where a pass
\* starts; the task tag never changes.
C10_SharedState ==
    [][/\ phase' \in {"val", "test"} =>
            /\ params' = params
            /\ calls'.backward = 0 /\ calls'.step = 0 /\ calls'.zero_grad = 0
            /\ training' = FALSE
       /\ params' # params => (phase' = "train" /\ training' = TRUE)
       /\ training' # training => (tpc = "idle" /\ tpc' = "loop")
       /\ task' = task]_vars

C10_Witness ==
    /\ phase = "val"
    /\ tpc = "idle"
    /\ log # <<>>
    /\ params > 0
    /\ training = FALSE
    /\ calls.forward = 2
    /\ calls.backward = 0

====
